---- MODULE Spec2Model ----
(***************************************************************************)
(* Model of the MDBX key-value adapter of crates/core/src/kvs/mdbx/mod.rs: *)
(* the Datastore (owner of the Arc<Database>), the boxed Transaction       *)
(* objects it hands out, the native read-write transaction each of them    *)
(* wraps, and the operations of the kvs_api::Transaction contract.         *)
(*                                                                         *)
(* The native engine (libmdbx) is the environment of the adapter.  What    *)
(* the model takes from it: a read-write native transaction works on a     *)
(* private copy of the table that becomes the table on a successful        *)
(* commit and is discarded on abort (drop); begin_rw_txn does not return   *)
(* while another read-write native transaction of the same environment is  *)
(* live; the cursor iterates the table in ascending byte order; every      *)
(* native call may fail.                                                   *)
(***************************************************************************)
EXTENDS Integers, Sequences, FiniteSets, TLC

\* ------------------------------------------------------------------ bounds
MaxTxn == 2        \* Transaction objects that can exist at the same time
MaxKeys == 1       \* keys drawn from KeyUniverse
MaxVal == 2        \* values are 1..MaxVal
MaxLimit == 3      \* scan limits are 0..MaxLimit
MaxScanKeys == 3   \* keys of the tables that the range methods are run on
MaxStrLen == 2     \* length of the names handed to the key encoders
MaxKeyCalls == 2   \* calls of the key encoders that are remembered
MaxTail == 2       \* bytes that follow the header of a candidate WASM buffer
MaxRequests == 2   \* imports and DEFINE WASM statements that are handled
MaxIdentLen == 3   \* characters of the text handed to the identifier parser

Txns == 1..MaxTxn
Vals == 1..MaxVal
Limits == 0..MaxLimit

\* Byte strings used as keys, listed out of order on purpose.
KeyUniverse == << <<2>>, <<1>>, <<1, 2>>, <<3>>, <<2, 1>> >>
Keys == {KeyUniverse[i] : i \in 1..MaxKeys}

\* Range bounds: the keys, and a bound below and a bound above all of them.
RangeBounds == Keys \cup {<< >>, <<9>>}

NoVal == 0                   \* Option::None of a Val
NoVersion == 0               \* Option::None of a version
Versions == {NoVersion, 1}   \* None, Some(1)
Checks == {"Warn", "Error"}  \* values of kvs::Check

\* ------------------------------------------------------------- key order
Min2(a, b) == IF a < b THEN a ELSE b

\* Vec<u8> ordering: byte-lexicographic, a proper prefix is smaller.
KeyLt(a, b) ==
  \E i \in 1..(Min2(Len(a), Len(b)) + 1) :
     /\ \A j \in 1..(i - 1) : a[j] = b[j]
     /\ \/ (i > Len(a) /\ i <= Len(b))
        \/ (i <= Len(a) /\ i <= Len(b) /\ a[i] < b[i])

KeyLe(a, b) == a = b \/ KeyLt(a, b)

\* ---------------------------------------------------------------- results
Ok(v) == [tag |-> "Ok", err |-> "", val |-> v]
ErrDs(m) == [tag |-> "Err", err |-> m, val |-> << >>]
\* ErrNoTxn that reports success when the native transaction is gone.
ErrNoTxn_Silent == Ok(<< >>)

\* The error of every method that finds self.txn empty.
ErrNoTxn == ErrDs("No active transaction")
ErrNative == ErrDs("native")
ErrVersion == [tag |-> "Err", err |-> "UnsupportedVersionedQueries", val |-> << >>]
Unit == << >>

VARIABLES
  dsAlive,      \* the Datastore exists (and holds its Arc<Database>)
  store,        \* the committed table of the environment: Keys -> Vals or NoVal
  obj,          \* per Transaction slot: "none", "begin", "boxed", "dropping"
  db,           \* Transaction.db: the slot holds a clone of the Arc<Database>
  txn,          \* Transaction.txn is Some(native transaction)
  done,         \* Transaction.done
  write,        \* Transaction.write
  check,        \* Transaction.check
  save_points,  \* Transaction.save_points
  view,         \* the table as the native transaction of the slot sees it
  wrote,        \* keys the native transaction of the slot has put or deleted
  snap,         \* the committed table at the moment the slot's begin returned
  durable,      \* per key, the value left by the last successful commit that wrote it
  committed,    \* the slot's Transaction has committed successfully
  crashed,      \* the process died on a use of a freed environment
  last,         \* the latest contract call: operation, arguments, result
  kq,           \* the calls of the key encoder made so far, with their keys
  obs,          \* the object store: path -> bytes
  defs,         \* the WASM definitions of the database: key -> statement
  http          \* the latest call of the WASM layer: arguments, steps, result

vars == <<dsAlive, store, obj, db, txn, done, write, check, save_points,
          view, wrote, snap, durable, committed, crashed, last, kq,
          obs, defs, http>>

slotVars == <<obj, db, txn, done, write, check, save_points, view, wrote, snap>>

EmptyTable == [k \in Keys |-> NoVal]

NoRange == [start |-> << >>, end |-> << >>]

\* No call is waiting for its caller; also the default of every field.
\* fail and failAt tell which native call the operation has made returned
\* an error.
NoCall == [op |-> "", t |-> 0, wasDone |-> FALSE, version |-> NoVersion,
           key |-> << >>, val |-> NoVal, chk |-> NoVal, rng |-> NoRange,
           limit |-> 0, dirty |-> {}, fail |-> FALSE, failAt |-> 0,
           res |-> Ok(Unit)]

\* No call of the WASM layer is waiting for its caller; n counts the
\* imports and DEFINE WASM statements handled so far.
NoHttp == [op |-> "", n |-> 0, guard |-> "", name |-> << >>,
           version |-> << >>, body |-> << >>, hash |-> << >>,
           if_not_exists |-> FALSE, stored |-> FALSE, def |-> Ok(Unit),
           cleanup |-> "none", res |-> Ok(Unit)]

\* Arc<Database> strong count is positive: the Database has not been dropped.
EnvAlive == dsAlive \/ \E t \in Txns : db[t]

Init ==
  /\ dsAlive = TRUE
  /\ store = EmptyTable
  /\ obj = [t \in Txns |-> "none"]
  /\ db = [t \in Txns |-> FALSE]
  /\ txn = [t \in Txns |-> FALSE]
  /\ done = [t \in Txns |-> FALSE]
  /\ write = [t \in Txns |-> FALSE]
  /\ check = [t \in Txns |-> "Warn"]
  /\ save_points = [t \in Txns |-> << >>]
  /\ view = [t \in Txns |-> EmptyTable]
  /\ wrote = [t \in Txns |-> {}]
  /\ snap = [t \in Txns |-> EmptyTable]
  /\ durable = EmptyTable
  /\ committed = [t \in Txns |-> FALSE]
  /\ crashed = FALSE
  /\ last = NoCall
  /\ kq = << >>
  /\ obs = << >>
  /\ defs = << >>
  /\ http = NoHttp

\* ------------------------------------------------------------- lifecycle
\* The caller has taken the result of the previous call.
Idle == last.op = ""

\* The call record of operation op on slot t, before its result is known.
Call(op, t) == [NoCall EXCEPT !.op = op, !.t = t, !.wasDone = done[t]]

\* WriterFree without the engine's writer lock.
WriterFree_NoLock == TRUE

\* begin_rw_txn can return: no read-write native transaction is live.
WriterFree == \A u \in Txns : ~txn[u]

\* The operation on slot t gets as far as its native calls: the version is
\* None and the Transaction holds its native transaction.
native_call(t, version) == version = NoVersion /\ txn[t]

\* Datastore::new: opens the environment again once the previous Database
\* has been dropped; the table on disk is what the last commit left.
DatastoreNew ==
  /\ Idle /\ ~crashed
  /\ ~EnvAlive
  /\ \A t \in Txns : obj[t] = "none"
  /\ \E fail \in BOOLEAN :
       /\ dsAlive' = ~fail
       /\ last' = [NoCall EXCEPT !.op = "Datastore::new", !.fail = fail,
                                 !.res = IF fail THEN ErrNative ELSE Ok(Unit)]
  /\ UNCHANGED <<store, slotVars, durable, committed, crashed, kq, obs, defs, http>>

\* Datastore::transaction, up to the call of begin_rw_txn: the Arc is cloned.
\* write[t] holds the argument until Transaction::new stores it.
TransactionCall(t) ==
  /\ Idle /\ ~crashed
  /\ dsAlive
  /\ obj[t] = "none"
  /\ \E w \in BOOLEAN : write' = [write EXCEPT ![t] = w]
  /\ obj' = [obj EXCEPT ![t] = "begin"]
  /\ db' = [db EXCEPT ![t] = TRUE]
  /\ UNCHANGED <<dsAlive, store, txn, done, check, save_points, view, wrote,
                 snap, durable, committed, crashed, kq, obs, defs, http, last>>

\* begin_rw_txn returns a native transaction and Transaction::new boxes it
\* with the check level the caller passed, one of CS.
BeginRwTxn(t, CS) ==
  /\ Idle /\ ~crashed
  /\ obj[t] = "begin"
  /\ WriterFree
  /\ obj' = [obj EXCEPT ![t] = "boxed"]
  /\ txn' = [txn EXCEPT ![t] = TRUE]
  /\ done' = [done EXCEPT ![t] = FALSE]
  /\ \E c \in CS : check' = [check EXCEPT ![t] = c]
  /\ save_points' = [save_points EXCEPT ![t] = << >>]
  /\ view' = [view EXCEPT ![t] = store]
  /\ wrote' = [wrote EXCEPT ![t] = {}]
  /\ snap' = [snap EXCEPT ![t] = store]
  /\ committed' = [committed EXCEPT ![t] = FALSE]
  /\ last' = [NoCall EXCEPT !.op = "transaction", !.t = t]
  /\ UNCHANGED <<dsAlive, store, db, write, durable, crashed, kq, obs, defs, http>>

\* begin_rw_txn fails: the `?` returns the error and drops the cloned Arc.
BeginRwTxnErr(t) ==
  /\ Idle /\ ~crashed
  /\ obj[t] = "begin"
  /\ obj' = [obj EXCEPT ![t] = "none"]
  /\ db' = [db EXCEPT ![t] = FALSE]
  /\ write' = [write EXCEPT ![t] = FALSE]
  /\ last' = [NoCall EXCEPT !.op = "transaction", !.t = t, !.res = ErrNative]
  /\ UNCHANGED <<dsAlive, store, txn, done, check, save_points, view, wrote,
                 snap, durable, committed, crashed, kq, obs, defs, http>>

\* The Datastore is dropped: its Arc is released.  A call of
\* Datastore::transaction borrows the Datastore, so none is in progress.
DropDatastore ==
  /\ Idle /\ ~crashed
  /\ dsAlive
  /\ \A t \in Txns : obj[t] # "begin"
  /\ dsAlive' = FALSE
  /\ UNCHANGED <<store, slotVars, durable, committed, crashed, kq, obs, defs, http, last>>

\* Drop of a boxed Transaction, first field in declaration order: db.
\* write, check and save_points own nothing and nobody can read them any
\* more: the slot forgets them here.
DropFieldDb(t) ==
  /\ Idle /\ ~crashed
  /\ obj[t] = "boxed"
  /\ obj' = [obj EXCEPT ![t] = "dropping"]
  /\ db' = [db EXCEPT ![t] = FALSE]
  /\ write' = [write EXCEPT ![t] = FALSE]
  /\ check' = [check EXCEPT ![t] = "Warn"]
  /\ save_points' = [save_points EXCEPT ![t] = << >>]
  /\ committed' = [committed EXCEPT ![t] = FALSE]
  /\ UNCHANGED <<dsAlive, store, txn, done, view, wrote, snap, durable,
                 crashed, kq, obs, defs, http, last>>

\* Drop of a boxed Transaction, the field after db: txn.  A live native
\* transaction is aborted.  The abort goes through the Database the native
\* transaction borrows; when that Database has been dropped this is a use
\* after free, which either goes unnoticed or kills the process.
DropFieldTxn(t) ==
  /\ Idle /\ ~crashed
  /\ obj[t] = "dropping"
  /\ obj' = [obj EXCEPT ![t] = "none"]
  /\ txn' = [txn EXCEPT ![t] = FALSE]
  /\ done' = [done EXCEPT ![t] = FALSE]
  /\ view' = [view EXCEPT ![t] = EmptyTable]
  /\ wrote' = [wrote EXCEPT ![t] = {}]
  /\ snap' = [snap EXCEPT ![t] = EmptyTable]
  /\ IF txn[t] /\ ~EnvAlive
       THEN crashed' \in BOOLEAN
       ELSE crashed' = crashed
  /\ UNCHANGED <<dsAlive, store, db, write, check, save_points, durable,
                 committed, last, kq, obs, defs, http>>

\* The caller takes the result of the call that has returned.
Return ==
  /\ ~Idle
  /\ last' = NoCall
  /\ UNCHANGED <<dsAlive, store, slotVars, durable, committed, crashed, kq, obs, defs, http>>

\* ------------------------------------------------- transaction contract
\* A contract method can be called on the boxed Transaction of slot t.
Callable(t) == Idle /\ ~crashed /\ obj[t] = "boxed"

\* Transaction::closed
closed(t) == done[t]

\* Transaction::writeable
writeable(t) == write[t]

\* TakeTxn that leaves the native transaction in the Transaction.
TakeTxn_Keeps(t) == UNCHANGED <<txn, view, wrote, snap>>

\* self.txn.take(): the native transaction is taken out of the Transaction
\* and ends.
TakeTxn(t) ==
  /\ txn' = [txn EXCEPT ![t] = FALSE]
  /\ view' = [view EXCEPT ![t] = EmptyTable]
  /\ wrote' = [wrote EXCEPT ![t] = {}]
  /\ snap' = [snap EXCEPT ![t] = EmptyTable]

\* Aborted that rolls the table back to empty.
Aborted_Wipes(t) == EmptyTable

\* The table after the native transaction of slot t, if any, is dropped
\* without a commit: its writes were never in the table.
Aborted(t) == store

\* Committed that loses the writes of the transaction.
Committed_Lost(t) == store

\* The table after the native commit of slot t.
Committed(t) ==
  [k \in DOMAIN store |-> IF k \in wrote[t] THEN view[t][k] ELSE store[k]]

check_level(t) ==
  /\ Callable(t)
  /\ \E c \in Checks :
       /\ check' = [check EXCEPT ![t] = c]
       /\ last' = Call("check_level", t)
  /\ UNCHANGED <<dsAlive, store, obj, db, txn, done, write, save_points, view,
                 wrote, snap, durable, committed, crashed, kq, obs, defs, http>>

\* cancel that commits the native transaction instead of dropping it.
cancel_Commits(t) ==
  /\ Callable(t)
  /\ done' = [done EXCEPT ![t] = TRUE]
  /\ TakeTxn(t)
  /\ store' = [k \in DOMAIN store |->
                 IF k \in wrote[t] THEN view[t][k] ELSE store[k]]
  /\ last' = [Call("cancel", t) EXCEPT !.dirty = wrote[t]]
  /\ UNCHANGED <<dsAlive, obj, db, write, check, save_points, durable,
                 committed, crashed, kq, obs, defs, http>>

cancel(t) ==
  /\ Callable(t)
  /\ done' = [done EXCEPT ![t] = TRUE]
  /\ TakeTxn(t)
  /\ store' = Aborted(t)
  /\ last' = [Call("cancel", t) EXCEPT !.dirty = wrote[t]]
  /\ UNCHANGED <<dsAlive, obj, db, write, check, save_points, durable,
                 committed, crashed, kq, obs, defs, http>>

\* commit that marks the Transaction done only when the native commit
\* succeeds.
commit_DoneOnSuccess(t) ==
  /\ Callable(t)
  /\ \E fail \in BOOLEAN :
       IF txn[t]
         THEN /\ TakeTxn(t)
              /\ IF fail
                   THEN /\ UNCHANGED <<store, durable, committed, done>>
                        /\ last' = [Call("commit", t) EXCEPT
                                      !.dirty = wrote[t], !.fail = fail,
                                      !.res = ErrNative]
                   ELSE /\ done' = [done EXCEPT ![t] = TRUE]
                        /\ store' = Committed(t)
                        /\ durable' = [k \in DOMAIN durable |->
                              IF k \in wrote[t] THEN view[t][k] ELSE durable[k]]
                        /\ committed' = [committed EXCEPT ![t] = TRUE]
                        /\ last' = [Call("commit", t) EXCEPT !.dirty = wrote[t]]
         ELSE /\ last' = [Call("commit", t) EXCEPT !.res = ErrNoTxn]
              /\ UNCHANGED <<store, durable, committed, txn, done, view, wrote,
                             snap>>
  /\ UNCHANGED <<dsAlive, obj, db, write, check, save_points, crashed, kq, obs, defs, http>>

commit(t) ==
  /\ Callable(t)
  /\ \E fail \in BOOLEAN :
       IF txn[t]
         THEN /\ done' = [done EXCEPT ![t] = TRUE]
              /\ TakeTxn(t)
              /\ IF fail
                   THEN /\ UNCHANGED <<store, durable, committed>>
                        /\ last' = [Call("commit", t) EXCEPT
                                      !.dirty = wrote[t], !.fail = fail,
                                      !.res = ErrNative]
                   ELSE /\ store' = Committed(t)
                        /\ durable' = [k \in DOMAIN durable |->
                              IF k \in wrote[t] THEN view[t][k] ELSE durable[k]]
                        /\ committed' = [committed EXCEPT ![t] = TRUE]
                        /\ last' = [Call("commit", t) EXCEPT !.dirty = wrote[t]]
         ELSE /\ last' = [Call("commit", t) EXCEPT !.res = ErrNoTxn]
              /\ UNCHANGED <<store, durable, committed, txn, done, view, wrote,
                             snap>>
  /\ UNCHANGED <<dsAlive, obj, db, write, check, save_points, crashed, kq, obs, defs, http>>

\* The result of Transaction::get with version None.
get_res(t, key, fail) ==
  IF txn[t]
    THEN IF fail THEN ErrNative ELSE Ok(view[t][key])
    ELSE ErrNoTxn

get(t) ==
  /\ Callable(t)
  /\ \E key \in Keys, version \in Versions, fail \in BOOLEAN :
       last' = [Call("get", t) EXCEPT !.key = key, !.version = version,
                  !.fail = native_call(t, version) /\ fail,
                  !.res = IF version # NoVersion THEN ErrVersion
                          ELSE get_res(t, key, fail)]
  /\ UNCHANGED <<dsAlive, store, slotVars, durable, committed, crashed, kq, obs, defs, http>>

\* result.map(|v| v.is_some())
IsSome(r) == IF r.tag = "Ok" THEN Ok(r.val # NoVal) ELSE r

exists(t) ==
  /\ Callable(t)
  /\ \E key \in Keys, version \in Versions, fail \in BOOLEAN :
       last' = [Call("exists", t) EXCEPT !.key = key, !.version = version,
                  !.fail = native_call(t, version) /\ fail,
                  !.res = IF version # NoVersion THEN ErrVersion
                          ELSE IsSome(get_res(t, key, fail))]
  /\ UNCHANGED <<dsAlive, store, slotVars, durable, committed, crashed, kq, obs, defs, http>>

\* The result of Transaction::set with version None.
set_res(t, fail) ==
  IF txn[t]
    THEN IF fail THEN ErrNative ELSE Ok(Unit)
    ELSE ErrNoTxn

\* set_do that inserts only: a key that holds a value keeps it.
set_do_InsertOnly(t, key, val, fail) ==
  IF txn[t] /\ ~fail /\ view[t][key] = NoVal
    THEN /\ view' = [view EXCEPT ![t][key] = val]
         /\ wrote' = [wrote EXCEPT ![t] = @ \cup {key}]
    ELSE UNCHANGED <<view, wrote>>

\* What Transaction::set with version None does to the native transaction:
\* txn.put(&table, &key, &val, WriteFlags::empty()).
set_do(t, key, val, fail) ==
  IF txn[t] /\ ~fail
    THEN /\ view' = [view EXCEPT ![t][key] = val]
         /\ wrote' = [wrote EXCEPT ![t] = @ \cup {key}]
    ELSE UNCHANGED <<view, wrote>>

set(t) ==
  /\ Callable(t)
  /\ \E key \in Keys, val \in Vals, version \in Versions, fail \in BOOLEAN :
       IF version # NoVersion
         THEN /\ last' = [Call("set", t) EXCEPT !.key = key, !.val = val,
                            !.version = version, !.res = ErrVersion]
              /\ UNCHANGED <<view, wrote>>
         ELSE /\ set_do(t, key, val, fail)
              /\ last' = [Call("set", t) EXCEPT !.key = key, !.val = val,
                            !.fail = native_call(t, version) /\ fail,
                            !.res = set_res(t, fail)]
  /\ UNCHANGED <<dsAlive, store, obj, db, txn, done, write, check, save_points,
                 snap, durable, committed, crashed, kq, obs, defs, http>>

put(t) ==
  /\ Callable(t)
  /\ \E key \in Keys, val \in Vals, version \in Versions, fail \in BOOLEAN :
       IF version # NoVersion
         THEN /\ last' = [Call("put", t) EXCEPT !.key = key, !.val = val,
                            !.version = version, !.res = ErrVersion]
              /\ UNCHANGED <<view, wrote>>
         ELSE /\ set_do(t, key, val, fail)
              /\ last' = [Call("put", t) EXCEPT !.key = key, !.val = val,
                            !.fail = native_call(t, version) /\ fail,
                            !.res = set_res(t, fail)]
  /\ UNCHANGED <<dsAlive, store, obj, db, txn, done, write, check, save_points,
                 snap, durable, committed, crashed, kq, obs, defs, http>>

putc(t) ==
  /\ Callable(t)
  /\ \E key \in Keys, val \in Vals, chk \in Vals \cup {NoVal}, fail \in BOOLEAN :
       /\ set_do(t, key, val, fail)
       /\ last' = [Call("putc", t) EXCEPT !.key = key, !.val = val,
                     !.chk = chk, !.fail = native_call(t, NoVersion) /\ fail,
                     !.res = set_res(t, fail)]
  /\ UNCHANGED <<dsAlive, store, obj, db, txn, done, write, check, save_points,
                 snap, durable, committed, crashed, kq, obs, defs, http>>

replace(t) ==
  /\ Callable(t)
  /\ \E key \in Keys, val \in Vals, fail \in BOOLEAN :
       /\ set_do(t, key, val, fail)
       /\ last' = [Call("replace", t) EXCEPT !.key = key, !.val = val,
                     !.fail = native_call(t, NoVersion) /\ fail,
                     !.res = set_res(t, fail)]
  /\ UNCHANGED <<dsAlive, store, obj, db, txn, done, write, check, save_points,
                 snap, durable, committed, crashed, kq, obs, defs, http>>

\* The result of Transaction::del: Ok whether or not the key was there.
del_res(t, fail) ==
  IF txn[t]
    THEN IF fail THEN ErrNative ELSE Ok(Unit)
    ELSE ErrNoTxn

\* del_do that leaves the key in the table.
del_do_Keeps(t, key, fail) == UNCHANGED <<view, wrote>>

\* What Transaction::del does to the native transaction: txn.del(&table, &key, None).
del_do(t, key, fail) ==
  IF txn[t] /\ ~fail
    THEN /\ view' = [view EXCEPT ![t][key] = NoVal]
         /\ wrote' = [wrote EXCEPT ![t] = @ \cup {key}]
    ELSE UNCHANGED <<view, wrote>>

del(t) ==
  /\ Callable(t)
  /\ \E key \in Keys, fail \in BOOLEAN :
       /\ del_do(t, key, fail)
       /\ last' = [Call("del", t) EXCEPT !.key = key,
                     !.fail = native_call(t, NoVersion) /\ fail,
                     !.res = del_res(t, fail)]
  /\ UNCHANGED <<dsAlive, store, obj, db, txn, done, write, check, save_points,
                 snap, durable, committed, crashed, kq, obs, defs, http>>

delc(t) ==
  /\ Callable(t)
  /\ \E key \in Keys, chk \in Vals \cup {NoVal}, fail \in BOOLEAN :
       /\ del_do(t, key, fail)
       /\ last' = [Call("delc", t) EXCEPT !.key = key, !.chk = chk,
                     !.fail = native_call(t, NoVersion) /\ fail,
                     !.res = del_res(t, fail)]
  /\ UNCHANGED <<dsAlive, store, obj, db, txn, done, write, check, save_points,
                 snap, durable, committed, crashed, kq, obs, defs, http>>

\* ------------------------------------------------------ range operations
RECURSIVE SortKeys(_)
SortKeys(S) ==
  IF S = {} THEN << >>
  ELSE LET m == CHOOSE x \in S : \A y \in S : KeyLe(x, y)
       IN <<m>> \o SortKeys(S \ {m})

\* What cursor.iter() yields: the entries of the table in ascending key order.
CursorItems(tbl) == SortKeys({k \in DOMAIN tbl : tbl[k] # NoVal})

\* InRange with the end of the range included.
InRange_Closed(key, rng) == KeyLe(rng.start, key) /\ KeyLe(key, rng.end)

\* key >= rng.start && key < rng.end
InRange(key, rng) == KeyLe(rng.start, key) /\ KeyLt(key, rng.end)

Ranges == {[start |-> s, end |-> e] : s \in RangeBounds, e \in RangeBounds}

RECURSIVE keys_loop(_, _, _, _, _)
\* The for loop of keys and keysr; count is Len(acc).
keys_loop(items, i, rng, limit, acc) ==
  IF i > Len(items) THEN acc
  ELSE IF Len(acc) >= limit THEN acc
  ELSE IF InRange(items[i], rng)
         THEN keys_loop(items, i + 1, rng, limit, Append(acc, items[i]))
  ELSE IF KeyLe(rng.end, items[i]) THEN acc
  ELSE keys_loop(items, i + 1, rng, limit, acc)

RECURSIVE scan_loop(_, _, _, _, _, _)
\* The for loop of scan and scanr; count is Len(acc).
scan_loop(tbl, items, i, rng, limit, acc) ==
  IF i > Len(items) THEN acc
  ELSE IF Len(acc) >= limit THEN acc
  ELSE IF InRange(items[i], rng)
         THEN scan_loop(tbl, items, i + 1, rng, limit,
                        Append(acc, <<items[i], tbl[items[i]]>>))
  ELSE IF KeyLe(rng.end, items[i]) THEN acc
  ELSE scan_loop(tbl, items, i + 1, rng, limit, acc)

RECURSIVE getr_loop(_, _, _, _, _)
\* The for loop of getr: no limit.
getr_loop(tbl, items, i, rng, acc) ==
  IF i > Len(items) THEN acc
  ELSE IF InRange(items[i], rng)
         THEN getr_loop(tbl, items, i + 1, rng,
                        Append(acc, <<items[i], tbl[items[i]]>>))
  ELSE IF KeyLe(rng.end, items[i]) THEN acc
  ELSE getr_loop(tbl, items, i + 1, rng, acc)

\* Reverse that leaves the sequence as it is.
Reverse_Identity(s) == s

\* Where a range method meets a native error: nowhere, at open_table or
\* at the creation of the cursor, or (i >= 1) at the i-th entry the cursor
\* yields.
NoFail == 0
FailOpen == -1

RECURSIVE loop_err(_, _, _, _, _, _)
\* The for loop of keys, keysr, scan and scanr reaches the Err(e) arm:
\* the entry that fails is looked at before the limit or a key >= rng.end
\* ends the loop.
loop_err(items, i, rng, limit, count, fail) ==
  IF i > Len(items) THEN FALSE
  ELSE IF count >= limit THEN FALSE
  ELSE IF i = fail THEN TRUE
  ELSE IF InRange(items[i], rng)
         THEN loop_err(items, i + 1, rng, limit, count + 1, fail)
  ELSE IF KeyLe(rng.end, items[i]) THEN FALSE
  ELSE loop_err(items, i + 1, rng, limit, count, fail)

RECURSIVE getr_err(_, _, _, _)
\* The for loop of getr reaches the Err(e) arm.
getr_err(items, i, rng, fail) ==
  IF i > Len(items) THEN FALSE
  ELSE IF i = fail THEN TRUE
  ELSE IF InRange(items[i], rng) THEN getr_err(items, i + 1, rng, fail)
  ELSE IF KeyLe(rng.end, items[i]) THEN FALSE
  ELSE getr_err(items, i + 1, rng, fail)

\* open_table or cursor fails, or the loop meets the entry that fails.
range_err(t, rng, limit, fail) ==
  \/ fail = FailOpen
  \/ loop_err(CursorItems(view[t]), 1, rng, limit, 0, fail)

\* Vec::reverse
Reverse(s) == [i \in 1..Len(s) |-> s[Len(s) + 1 - i]]

\* The results with version None.
\* keys_res that stops one key after the limit.
keys_res_OneMore(t, rng, limit, fail) ==
  IF txn[t]
    THEN IF range_err(t, rng, limit, fail) THEN ErrNative
         ELSE Ok(keys_loop(CursorItems(view[t]), 1, rng, limit + 1, << >>))
    ELSE ErrNoTxn

keys_res(t, rng, limit, fail) ==
  IF txn[t]
    THEN IF range_err(t, rng, limit, fail) THEN ErrNative
         ELSE Ok(keys_loop(CursorItems(view[t]), 1, rng, limit, << >>))
    ELSE ErrNoTxn

keysr_res(t, rng, limit, fail) ==
  IF txn[t]
    THEN IF range_err(t, rng, limit, fail) THEN ErrNative
         ELSE Ok(Reverse(keys_loop(CursorItems(view[t]), 1, rng, limit, << >>)))
    ELSE ErrNoTxn

\* scan_res whose loop starts at the second entry of the cursor.
scan_res_SkipsFirst(t, rng, limit, fail) ==
  IF txn[t]
    THEN IF range_err(t, rng, limit, fail) THEN ErrNative
         ELSE Ok(scan_loop(view[t], CursorItems(view[t]), 2, rng, limit, << >>))
    ELSE ErrNoTxn

scan_res(t, rng, limit, fail) ==
  IF txn[t]
    THEN IF range_err(t, rng, limit, fail) THEN ErrNative
         ELSE Ok(scan_loop(view[t], CursorItems(view[t]), 1, rng, limit, << >>))
    ELSE ErrNoTxn

\* scanr_res that returns what it collected when an entry fails.
scanr_res_Partial(t, rng, limit, fail) ==
  IF txn[t]
    THEN IF fail = FailOpen THEN ErrNative
         ELSE Ok(Reverse(scan_loop(view[t], CursorItems(view[t]), 1, rng,
                                   Min2(limit, IF fail = NoFail THEN limit
                                               ELSE fail - 1), << >>)))
    ELSE ErrNoTxn

scanr_res(t, rng, limit, fail) ==
  IF txn[t]
    THEN IF range_err(t, rng, limit, fail) THEN ErrNative
         ELSE Ok(Reverse(scan_loop(view[t], CursorItems(view[t]), 1, rng, limit, << >>)))
    ELSE ErrNoTxn

\* getr_res that takes the entry at rng.end too.
getr_res_Closed(t, rng, fail) ==
  IF txn[t]
    THEN IF fail = FailOpen
            \/ getr_err(CursorItems(view[t]), 1, rng, fail) THEN ErrNative
         ELSE Ok(getr_loop(view[t], CursorItems(view[t]), 1,
                           [rng EXCEPT !.end = Append(@, 0)], << >>))
    ELSE ErrNoTxn

getr_res(t, rng, fail) ==
  IF txn[t]
    THEN IF fail = FailOpen
            \/ getr_err(CursorItems(view[t]), 1, rng, fail) THEN ErrNative
         ELSE Ok(getr_loop(view[t], CursorItems(view[t]), 1, rng, << >>))
    ELSE ErrNoTxn

\* Batch::new(None, values)
Batch(values) == [next |-> NoRange, values |-> values]

\* keys(..).await? then Ok(Batch::new(None, keys))
ToBatch(r) == IF r.tag = "Ok" THEN Ok(Batch(r.val)) ELSE r

\* RangeCall that drops the version and answers as for version None.
RangeCall_DropsVersion(op, t, rng, limit, version, fail, res) ==
  /\ last' = [Call(op, t) EXCEPT !.rng = rng, !.limit = limit,
                !.version = version,
                !.failAt = IF native_call(t, version) THEN fail ELSE NoFail,
                !.res = res]
  /\ UNCHANGED <<dsAlive, store, slotVars, durable, committed, crashed, kq, obs, defs, http>>

\* A call of a range method: it changes nothing but the result.
RangeCall(op, t, rng, limit, version, fail, res) ==
  /\ last' = [Call(op, t) EXCEPT !.rng = rng, !.limit = limit,
                !.version = version,
                !.failAt = IF native_call(t, version) THEN fail ELSE NoFail,
                !.res = IF version # NoVersion THEN ErrVersion ELSE res]
  /\ UNCHANGED <<dsAlive, store, slotVars, durable, committed, crashed, kq, obs, defs, http>>

keys(t, RS, FS) ==
  /\ Callable(t)
  /\ \E rng \in RS, limit \in Limits, version \in Versions, fail \in FS :
       RangeCall("keys", t, rng, limit, version, fail,
                 keys_res(t, rng, limit, fail))

keysr(t, RS, FS) ==
  /\ Callable(t)
  /\ \E rng \in RS, limit \in Limits, version \in Versions, fail \in FS :
       RangeCall("keysr", t, rng, limit, version, fail,
                 keysr_res(t, rng, limit, fail))

scan(t, RS, FS) ==
  /\ Callable(t)
  /\ \E rng \in RS, limit \in Limits, version \in Versions, fail \in FS :
       RangeCall("scan", t, rng, limit, version, fail,
                 scan_res(t, rng, limit, fail))

scanr(t, RS, FS) ==
  /\ Callable(t)
  /\ \E rng \in RS, limit \in Limits, version \in Versions, fail \in FS :
       RangeCall("scanr", t, rng, limit, version, fail,
                 scanr_res(t, rng, limit, fail))

getr(t, RS, FS) ==
  /\ Callable(t)
  /\ \E rng \in RS, version \in Versions, fail \in FS :
       RangeCall("getr", t, rng, 0, version, fail, getr_res(t, rng, fail))

scan_all_versions(t, RS) ==
  /\ Callable(t)
  /\ \E rng \in RS, limit \in Limits :
       RangeCall("scan_all_versions", t, rng, limit, NoVersion, NoFail,
                 ErrVersion)

batch_keys(t, RS, FS) ==
  /\ Callable(t)
  /\ \E rng \in RS, batch \in Limits, version \in Versions, fail \in FS :
       RangeCall("batch_keys", t, rng, batch, version, fail,
                 ToBatch(keys_res(t, rng, batch, fail)))

batch_keys_vals(t, RS, FS) ==
  /\ Callable(t)
  /\ \E rng \in RS, batch \in Limits, version \in Versions, fail \in FS :
       RangeCall("batch_keys_vals", t, rng, batch, version, fail,
                 ToBatch(scan_res(t, rng, batch, fail)))

\* save_point_prepare that records the key on the savepoint stack.
save_point_prepare_Records(t) ==
  /\ Callable(t)
  /\ \E key \in Keys, version \in Versions :
       /\ last' = [Call("save_point_prepare", t) EXCEPT !.key = key,
                     !.version = version,
                     !.res = IF version # NoVersion THEN ErrVersion
                             ELSE Ok(NoVal)]
       /\ save_points' = [save_points EXCEPT ![t] =
                            IF Len(@) < 1 THEN Append(@, key) ELSE @]
  /\ UNCHANGED <<dsAlive, store, obj, db, txn, done, write, check, view, wrote,
                 snap, durable, committed, crashed, kq, obs, defs, http>>

\* SaveOperation is not looked at; Ok(None) is Ok(NoVal).
save_point_prepare(t) ==
  /\ Callable(t)
  /\ \E key \in Keys, version \in Versions :
       last' = [Call("save_point_prepare", t) EXCEPT !.key = key,
                  !.version = version,
                  !.res = IF version # NoVersion THEN ErrVersion ELSE Ok(NoVal)]
  /\ UNCHANGED <<dsAlive, store, slotVars, durable, committed, crashed, kq, obs, defs, http>>

\* ----------------------------------------------------------- key encoders
\* b'k', b'y', b'z', b'a' and b"_bin"
Byte_k == 107
Byte_y == 121
Byte_z == 122
Byte_a == 97
Bytes_bin == <<95, 98, 105, 110>>

\* The bytes the names are made of, and the names: str::as_bytes.
Alphabet == {Byte_a}
Strs == UNION {[1..n -> Alphabet] : n \in 0..MaxStrLen}

\* The version strings: the names, and the text "_bin".
VersionStrs == Strs \cup {Bytes_bin}

\* key::database::ml
ml(ns, db_) == <<Byte_k>> \o ns \o db_ \o <<Byte_y>>

\* key::database::wasm
wasm(ns, db_) == <<Byte_k>> \o ns \o db_ \o <<Byte_z>>

\* key::database::api
api(ns, db_) == <<Byte_k>> \o ns \o db_ \o <<Byte_a>>

\* key::database::wasm::new
wasm_new(ns, db_, ident, version) ==
  <<Byte_k>> \o ns \o db_ \o <<Byte_z>> \o ident \o version

\* wasm_list with the kind byte of the ML index.
wasm_list_Ml(ns, db_) == <<Byte_k>> \o ns \o db_ \o <<Byte_y>>

\* key::database::wasm::list
wasm_list(ns, db_) == <<Byte_k>> \o ns \o db_ \o <<Byte_z>>

\* key::database::wasm::binary_key
wasm_binary_key(ns, db_, ident, version) ==
  <<Byte_k>> \o ns \o db_ \o <<Byte_z>> \o ident \o version \o Bytes_bin

\* A call of an encoder returns: its arguments and its key are remembered.
KeyCall(fn, ns, db_, ident, version, key) ==
  /\ Len(kq) < MaxKeyCalls
  /\ kq' = Append(kq, [fn |-> fn, ns |-> ns, db |-> db_, ident |-> ident,
                       version |-> version, key |-> key])
  /\ UNCHANGED <<dsAlive, store, slotVars, durable, committed, crashed, last,
                 obs, defs, http>>

CallMl ==
  \E ns \in Strs, db_ \in Strs :
    KeyCall("ml", ns, db_, << >>, << >>, ml(ns, db_))

CallWasm ==
  \E ns \in Strs, db_ \in Strs :
    KeyCall("wasm", ns, db_, << >>, << >>, wasm(ns, db_))

CallApi ==
  \E ns \in Strs, db_ \in Strs :
    KeyCall("api", ns, db_, << >>, << >>, api(ns, db_))

CallWasmNew ==
  \E ns \in Strs, db_ \in Strs, ident \in Strs,
     version \in VersionStrs :
    KeyCall("wasm::new", ns, db_, ident, version,
            wasm_new(ns, db_, ident, version))

CallWasmList ==
  \E ns \in Strs, db_ \in Strs :
    KeyCall("wasm::list", ns, db_, << >>, << >>, wasm_list(ns, db_))

CallWasmBinaryKey ==
  \E ns \in Strs, db_ \in Strs, ident \in Strs,
     version \in VersionStrs :
    KeyCall("wasm::binary_key", ns, db_, ident, version,
            wasm_binary_key(ns, db_, ident, version))

\* ------------------------------------------------------------ WASM layer
\* Any error but Error::Ds, by its variant or message.
Err(e) == [tag |-> "Err", err |-> e, val |-> << >>]

\* The magic bytes \0asm, the version bytes, and the length tested first.
Magic == <<0, 97, 115, 109>>
VersionBytes == <<1, 0, 0, 0>>
WasmHeaderLen == 8

\* is_valid_wasm_module that looks at the magic bytes only.
is_valid_wasm_module_MagicOnly(data) ==
  IF Len(data) < WasmHeaderLen THEN FALSE
  ELSE SubSeq(data, 1, 4) = Magic

\* data.len() >= 8 && data.starts_with(&magic) && data[4..8] == version_bytes
is_valid_wasm_module(data) ==
  IF Len(data) < WasmHeaderLen THEN FALSE
  ELSE SubSeq(data, 1, 4) = Magic /\ SubSeq(data, 5, 8) = VersionBytes

\* Candidate buffers: the first n bytes of a valid header, with at most one
\* byte replaced, followed by a short tail.
OtherBytes == {0, 1, 97}
Tails == UNION {[1..n -> {0, 7}] : n \in 0..MaxTail}
Replaced(data, i, b) == [j \in 1..Len(data) |-> IF j = i THEN b ELSE data[j]]
Buffers ==
  {Replaced(SubSeq(Magic \o VersionBytes, 1, n), i, b) \o tail :
     n \in 0..WasmHeaderLen, i \in 0..WasmHeaderLen, b \in OtherBytes,
     tail \in Tails}

\* The namespace and the database of the session: "n" and "d".
SessNs == <<110>>
SessDb == <<100>>

\* A header that is absent or not text, and the text headers.
NoHeader == <<255>>
HeaderVals == {NoHeader, << >>, <<Byte_a>>}

\* Utc::now().timestamp()
Timestamps == {7}

\* The request bodies: empty, too short, and two valid modules.
Bodies == {<< >>, Magic, Magic \o VersionBytes, Magic \o VersionBytes \o <<7>>}

\* i64 Display, for a number that is not negative.
RECURSIVE Decimal(_)
Decimal(n) ==
  IF n < 10 THEN <<48 + n>> ELSE Decimal(n \div 10) \o <<48 + (n % 10)>>

\* format!("wasm_{}", timestamp) and "1.0.0"
DefaultName(ts) == <<119, 97, 115, 109, 95>> \o Decimal(ts)
DefaultVersion == <<49, 46, 48, 46, 48>>

\* The name and the version a header gives: Some(s) if !s.is_empty().
HeaderName(h, ts) == IF h \in {NoHeader, << >>} THEN DefaultName(ts) ELSE h
HeaderVersion(h) == IF h \in {NoHeader, << >>} THEN DefaultVersion ELSE h

RECURSIVE WeightedSum(_, _)
WeightedSum(data, i) ==
  IF i > Len(data) THEN 0 ELSE i * (data[i] + 1) + WeightedSum(data, i + 1)

\* obs::hash: a digest of the bytes, as text.
hash(data) == Decimal(WeightedSum(data, 1) % 97)

\* format!("wasm/{nsv}/{dbv}/{}-{}-{hash}.wasm", name_str, version)
import_path(ns, db_, name, version, h) ==
  <<119, 97, 115, 109, 47>> \o ns \o <<47>> \o db_ \o <<47>> \o name
    \o <<45>> \o version \o <<45>> \o h \o <<46, 119, 97, 115, 109>>

\* export_path without the hash of the record.
export_path_NoHash(ns, db_, name, version, h) ==
  <<119, 97, 115, 109, 47>> \o ns \o <<47>> \o db_ \o <<47>> \o name
    \o <<45>> \o version \o <<46, 119, 97, 115, 109>>

\* format!("wasm/{nsv}/{dbv}/{name}-{version}-{}.wasm", wasm_def.hash)
export_path(ns, db_, name, version, h) ==
  <<119, 97, 115, 109, 47>> \o ns \o <<47>> \o db_ \o <<47>> \o name
    \o <<45>> \o version \o <<45>> \o h \o <<46, 119, 97, 115, 109>>

\* obs::put and obs::del: the object store with one object written, and
\* with one object removed.
obs_put(f, k, v) == [x \in DOMAIN f \cup {k} |-> IF x = k THEN v ELSE f[x]]
obs_del(f, k) == [x \in DOMAIN f \ {k} |-> f[x]]

\* txn.put(key, bytes, None): the adapter's put writes like set.
txn_put(f, k, v) == [x \in DOMAIN f \cup {k} |-> IF x = k THEN v ELSE f[x]]

\* The names, versions and hashes a definition can carry.
WasmNames == {HeaderName(h, ts) : h \in HeaderVals, ts \in Timestamps}
WasmVersions == {HeaderVersion(h) : h \in HeaderVals}
WasmHashes == {hash(b) : b \in {c \in Bodies : is_valid_wasm_module(c)}}

\* define_res without the test for an existing definition.
define_res_NoCheck(stmt, ns, db_, fail) ==
  IF fail THEN Err("Thrown") ELSE Ok(Unit)

\* The result of DefineWasmStatement::compute.  fail: the permission
\* check, ns_db, exists, to_vec or put returns an error.
define_res(stmt, ns, db_, fail) ==
  IF fail THEN Err("Thrown")
  ELSE IF ~stmt.if_not_exists
          /\ wasm_new(ns, db_, stmt.name, stmt.version) \in DOMAIN defs
         THEN Err("WasmAlreadyExists")
  ELSE Ok(Unit)

\* The definitions after DefineWasmStatement::compute: txn.put(key, bytes).
define_defs(stmt, ns, db_, fail) ==
  IF define_res(stmt, ns, db_, fail).tag = "Ok"
    THEN txn_put(defs, wasm_new(ns, db_, stmt.name, stmt.version), stmt)
    ELSE defs

\* import_res that reports success once the payload has been cleaned up.
import_res_Swallows(def, cleanup) ==
  IF def.tag = "Ok" \/ cleanup = "done" THEN Ok(Unit) ELSE def

\* What import returns after db.process: Ok(output::none()) or
\* Err(Error::from(e)).
import_res(def, cleanup) == IF def.tag = "Ok" THEN Ok(Unit) ELSE def

HttpIdle == http.op = ""

\* The guards of import and export, in the order they are evaluated;
\* the value is the first that fails.
Guards == {"pass", "ForbiddenRoute", "NsDb", "NotAllowed", "Body"}

\* import_check without the validation of the buffer.
import_check_NoValidation(guard, body) ==
  IF guard # "pass" THEN Err(guard)
  ELSE IF body = << >> THEN Err("Empty WASM module uploaded")
  ELSE Ok(Unit)

\* What import decides before it computes the hash: the error of the
\* first guard that fails, or Ok.
import_check(guard, body) ==
  IF guard # "pass" THEN Err(guard)
  ELSE IF body = << >> THEN Err("Empty WASM module uploaded")
  ELSE IF ~is_valid_wasm_module(body)
    THEN Err("Invalid WebAssembly module format")
  ELSE Ok(Unit)

import ==
  /\ HttpIdle /\ http.n < MaxRequests
  /\ \E guard \in Guards, body \in Bodies, hname \in HeaderVals,
        hversion \in HeaderVals, ts \in Timestamps, putFails \in BOOLEAN,
        defFails \in BOOLEAN, delFails \in BOOLEAN :
       LET name == HeaderName(hname, ts)
           version == HeaderVersion(hversion)
           h == hash(body)
           path == import_path(SessNs, SessDb, name, version, h)
           stmt == [name |-> name, version |-> version, hash |-> h,
                    if_not_exists |-> FALSE]
           def == define_res(stmt, SessNs, SessDb, defFails)
           cleanup == IF delFails THEN "failed" ELSE "done"
           call == [NoHttp EXCEPT !.op = "import", !.n = http.n + 1,
                                  !.guard = guard, !.body = body]
           named == [call EXCEPT !.name = name, !.version = version,
                                 !.hash = h]
       IN IF import_check(guard, body).tag = "Err"
            THEN /\ http' = [call EXCEPT !.res = import_check(guard, body)]
                 /\ UNCHANGED <<obs, defs>>
          ELSE IF putFails
            THEN /\ http' = [named EXCEPT
                               !.res = Err("Failed to store WASM binary")]
                 /\ UNCHANGED <<obs, defs>>
          ELSE IF def.tag = "Ok"
            THEN /\ obs' = obs_put(obs, path, body)
                 /\ defs' = define_defs(stmt, SessNs, SessDb, defFails)
                 /\ http' = [named EXCEPT !.stored = TRUE, !.def = def,
                               !.res = import_res(def, "none")]
          ELSE /\ obs' = IF delFails THEN obs_put(obs, path, body)
                                     ELSE obs_del(obs_put(obs, path, body), path)
               /\ defs' = defs
               /\ http' = [named EXCEPT !.stored = TRUE, !.def = def,
                             !.cleanup = cleanup,
                             !.res = import_res(def, cleanup)]
  /\ UNCHANGED <<dsAlive, store, slotVars, durable, committed, crashed, last,
                 kq>>

\* The result of export once its guards have passed.  getFails: obs::get
\* returns an error although the object is there.
export_res(ns, db_, name, version, getFails) ==
  LET key == wasm_new(ns, db_, name, version) IN
    IF key \notin DOMAIN defs THEN Err("not found")
    ELSE LET path == export_path(ns, db_, name, version, defs[key].hash) IN
           IF getFails \/ path \notin DOMAIN obs
             THEN Err("Failed to retrieve WASM module binary")
             ELSE Ok(obs[path])

export ==
  /\ HttpIdle
  /\ \E guard \in Guards \ {"Body"}, name \in WasmNames,
        version \in WasmVersions, getFails \in BOOLEAN :
       http' = [NoHttp EXCEPT !.op = "export", !.n = http.n,
                  !.guard = guard, !.name = name, !.version = version,
                  !.res = IF guard # "pass" THEN Err(guard)
                          ELSE export_res(SessNs, SessDb, name, version,
                                          getFails)]
  /\ UNCHANGED <<dsAlive, store, slotVars, durable, committed, crashed, last,
                 kq, obs, defs>>

\* A DEFINE WASM statement is processed in the session's ns and db.
DefineWasm ==
  /\ HttpIdle /\ http.n < MaxRequests
  /\ \E name \in WasmNames, version \in WasmVersions, h \in WasmHashes,
        ine \in BOOLEAN, fail \in BOOLEAN :
       LET stmt == [name |-> name, version |-> version, hash |-> h,
                    if_not_exists |-> ine]
           def == define_res(stmt, SessNs, SessDb, fail)
       IN /\ defs' = define_defs(stmt, SessNs, SessDb, fail)
          /\ http' = [NoHttp EXCEPT !.op = "define", !.n = http.n + 1,
                        !.name = name, !.version = version, !.hash = h,
                        !.if_not_exists = ine, !.def = def, !.res = def]
  /\ UNCHANGED <<dsAlive, store, slotVars, durable, committed, crashed, last,
                 kq, obs>>

\* A buffer is checked on its own.
IsValidCall ==
  /\ HttpIdle
  /\ \E data \in Buffers :
       http' = [NoHttp EXCEPT !.op = "is_valid_wasm_module", !.n = http.n,
                  !.body = data, !.res = Ok(is_valid_wasm_module(data))]
  /\ UNCHANGED <<dsAlive, store, slotVars, durable, committed, crashed, last,
                 kq, obs, defs>>

\* The caller takes the response.
HttpReturn ==
  /\ ~HttpIdle
  /\ http' = [NoHttp EXCEPT !.n = http.n]
  /\ UNCHANGED <<dsAlive, store, slotVars, durable, committed, crashed, last,
                 kq, obs, defs>>

\* ----------------------------------------------------------- identifiers
\* The characters of the texts: t, 1, _, -, the backtick and the two angle
\* brackets (as code points).
Backtick == 96
BracketOpen == 10216
BracketClose == 10217
IdentChars == {116, 49, 95, 45, Backtick, BracketOpen, BracketClose}
IdentTexts == UNION {[1..n -> IdentChars] : n \in 0..MaxIdentLen}

\* common::val_char: an ASCII letter, a digit or the underscore.
val_char(c) == c \in (48..57) \cup (65..90) \cup (97..122) \cup {95}

\* The number of characters of i from position p on that come before the
\* first character that is not in S.
RECURSIVE Span(_, _, _)
Span(i, p, S) ==
  IF p > Len(i) \/ i[p] \notin S THEN 0 ELSE 1 + Span(i, p + 1, S)

\* The result of a parser: what is left of the input, and the name.
Parsed(i, from, n) ==
  Ok([rest |-> SubSeq(i, from + n, Len(i)), name |-> SubSeq(i, from, from + n - 1)])

\* take_while1(val_char)
ident_default(i) ==
  LET n == Span(i, 1, {c \in IdentChars : val_char(c)}) IN
    IF n = 0 THEN Err("nom") ELSE Parsed(i, 1, n)

\* delimited(tag(open), is_not(close), tag(close))
delimited(i, open, close) ==
  IF Len(i) = 0 \/ i[1] # open THEN Err("nom")
  ELSE LET n == Span(i, 2, IdentChars \ {close}) IN
         IF n = 0 \/ n + 2 > Len(i) THEN Err("nom")
         ELSE Ok([rest |-> SubSeq(i, n + 3, Len(i)),
                  name |-> SubSeq(i, 2, n + 1)])

ident_backtick(i) == delimited(i, Backtick, Backtick)

ident_brackets(i) == delimited(i, BracketOpen, BracketClose)

\* alt((ident_default, ident_backtick, ident_brackets))
ident_raw(i) ==
  IF ident_default(i).tag = "Ok" THEN ident_default(i)
  ELSE IF ident_backtick(i).tag = "Ok" THEN ident_backtick(i)
  ELSE ident_brackets(i)

\* ident: Ident::from(v) keeps the name as it is.
ident(i) == ident_raw(i)

\* escape that always quotes.
escape_Always(name, c) == <<c>> \o name \o <<c>>

\* common::escape(&name, &val_char, c): the name, quoted with c when one of
\* its characters is no val_char.
escape(name, c) ==
  IF \A p \in 1..Len(name) : val_char(name[p]) THEN name
  ELSE <<c>> \o name \o <<c>>

\* Display for Ident
Display(name) == escape(name, Backtick)

\* A text is parsed as an identifier.
IdentCall ==
  /\ HttpIdle
  /\ \E i \in IdentTexts :
       http' = [NoHttp EXCEPT !.op = "ident", !.n = http.n, !.body = i,
                  !.res = ident(i)]
  /\ UNCHANGED <<dsAlive, store, slotVars, durable, committed, crashed, last,
                 kq, obs, defs>>

\* ---------------------------------------------------------- specification
\* The range the callers of Spec pass: every key.
LifeRanges == {[start |-> << >>, end |-> <<9>>]}

\* The native errors the callers of Spec meet in a range method: none, at
\* open_table or the cursor, or at one of the entries.
LifeFails == FailOpen..MaxKeys

\* The range methods meet no native error, or one before the loop.
ScanFails == {FailOpen, NoFail}

Next ==
  \/ DatastoreNew
  \/ DropDatastore
  \/ Return
  \/ \E t \in Txns : TransactionCall(t)
  \/ \E t \in Txns : BeginRwTxn(t, Checks)
  \/ \E t \in Txns : BeginRwTxnErr(t)
  \/ \E t \in Txns : DropFieldDb(t)
  \/ \E t \in Txns : DropFieldTxn(t)
  \/ \E t \in Txns : save_point_prepare(t)
  \/ \E t \in Txns : cancel(t)
  \/ \E t \in Txns : commit(t)
  \/ \E t \in Txns : exists(t)
  \/ \E t \in Txns : get(t)
  \/ \E t \in Txns : set(t)
  \/ \E t \in Txns : put(t)
  \/ \E t \in Txns : putc(t)
  \/ \E t \in Txns : replace(t)
  \/ \E t \in Txns : del(t)
  \/ \E t \in Txns : delc(t)
  \/ \E t \in Txns : keys(t, LifeRanges, LifeFails)
  \/ \E t \in Txns : keysr(t, LifeRanges, LifeFails)
  \/ \E t \in Txns : scan(t, LifeRanges, LifeFails)
  \/ \E t \in Txns : scanr(t, LifeRanges, LifeFails)
  \/ \E t \in Txns : getr(t, LifeRanges, LifeFails)
  \/ \E t \in Txns : scan_all_versions(t, LifeRanges)
  \/ \E t \in Txns : batch_keys(t, LifeRanges, LifeFails)
  \/ \E t \in Txns : batch_keys_vals(t, LifeRanges, LifeFails)
  \/ \E t \in Txns : check_level(t)

Spec == Init /\ [][Next]_vars

\* The operations that read or write single keys and end the transaction,
\* with callers that pass one check level and hold two Transactions at a
\* time: one that writes and commits or cancels, and one opened beside or
\* after it.  The operations left out change nothing but the result of
\* the call (and, check_level, the field check, which no method reads).
TxnChecks == {"Warn"}
TxnSlots == {t \in Txns : t <= 2}

NextTxn ==
  \/ DatastoreNew
  \/ DropDatastore
  \/ Return
  \/ \E t \in TxnSlots : TransactionCall(t)
  \/ \E t \in TxnSlots : BeginRwTxn(t, TxnChecks)
  \/ \E t \in TxnSlots : BeginRwTxnErr(t)
  \/ \E t \in TxnSlots : DropFieldDb(t)
  \/ \E t \in TxnSlots : DropFieldTxn(t)
  \/ \E t \in TxnSlots : cancel(t)
  \/ \E t \in TxnSlots : commit(t)
  \/ \E t \in TxnSlots : get(t)
  \/ \E t \in TxnSlots : set(t)
  \/ \E t \in TxnSlots : put(t)
  \/ \E t \in TxnSlots : putc(t)
  \/ \E t \in TxnSlots : replace(t)
  \/ \E t \in TxnSlots : del(t)
  \/ \E t \in TxnSlots : delc(t)

SpecTxn == Init /\ [][NextTxn]_vars

\* The life of the Datastore and of every Transaction, from creation to
\* commit or cancel and drop, without the operations on keys.
NextLife ==
  \/ DatastoreNew
  \/ DropDatastore
  \/ Return
  \/ \E t \in Txns : TransactionCall(t)
  \/ \E t \in Txns : BeginRwTxn(t, TxnChecks)
  \/ \E t \in Txns : BeginRwTxnErr(t)
  \/ \E t \in Txns : DropFieldDb(t)
  \/ \E t \in Txns : DropFieldTxn(t)
  \/ \E t \in Txns : cancel(t)
  \/ \E t \in Txns : commit(t)

SpecLife == Init /\ [][NextLife]_vars

\* Every operation of the contract on one Transaction at a time: the caller
\* creates a Transaction, calls its methods in any order, drops it and
\* creates the next one.
OpsTxn == 1

NextOps ==
  \/ DatastoreNew
  \/ DropDatastore
  \/ Return
  \/ TransactionCall(OpsTxn)
  \/ BeginRwTxn(OpsTxn, Checks)
  \/ BeginRwTxnErr(OpsTxn)
  \/ DropFieldDb(OpsTxn)
  \/ DropFieldTxn(OpsTxn)
  \/ save_point_prepare(OpsTxn)
  \/ cancel(OpsTxn)
  \/ commit(OpsTxn)
  \/ exists(OpsTxn)
  \/ get(OpsTxn)
  \/ set(OpsTxn)
  \/ put(OpsTxn)
  \/ putc(OpsTxn)
  \/ replace(OpsTxn)
  \/ del(OpsTxn)
  \/ delc(OpsTxn)
  \/ keys(OpsTxn, LifeRanges, ScanFails)
  \/ keysr(OpsTxn, LifeRanges, ScanFails)
  \/ scan(OpsTxn, LifeRanges, ScanFails)
  \/ scanr(OpsTxn, LifeRanges, ScanFails)
  \/ getr(OpsTxn, LifeRanges, ScanFails)
  \/ scan_all_versions(OpsTxn, LifeRanges)
  \/ batch_keys(OpsTxn, LifeRanges, ScanFails)
  \/ batch_keys_vals(OpsTxn, LifeRanges, ScanFails)
  \/ check_level(OpsTxn)

SpecOps == Init /\ [][NextOps]_vars

\* The range methods on an open Transaction whose table is any table over
\* ScanKeys, with every range whose bounds are a key, the empty key or a
\* key above all of them.
ScanKeys == {KeyUniverse[i] : i \in 1..MaxScanKeys}
ScanTables == [ScanKeys -> Vals \cup {NoVal}]
ScanRanges ==
  {[start |-> s, end |-> e] : s \in ScanKeys \cup {<< >>, <<9>>},
                              e \in ScanKeys \cup {<< >>, <<9>>}}

\* A Transaction that writes has just been created on the table tbl.
InitTable(tbl) ==
  /\ dsAlive = TRUE
  /\ store = tbl
  /\ durable = tbl
  /\ view = [t \in Txns |-> IF t = OpsTxn THEN tbl ELSE EmptyTable]
  /\ snap = [t \in Txns |-> IF t = OpsTxn THEN tbl ELSE EmptyTable]
  /\ obj = [t \in Txns |-> IF t = OpsTxn THEN "boxed" ELSE "none"]
  /\ db = [t \in Txns |-> t = OpsTxn]
  /\ txn = [t \in Txns |-> t = OpsTxn]
  /\ done = [t \in Txns |-> FALSE]
  /\ write = [t \in Txns |-> t = OpsTxn]
  /\ check = [t \in Txns |-> "Warn"]
  /\ save_points = [t \in Txns |-> << >>]
  /\ wrote = [t \in Txns |-> {}]
  /\ committed = [t \in Txns |-> FALSE]
  /\ crashed = FALSE
  /\ last = NoCall
  /\ kq = << >>
  /\ obs = << >>
  /\ defs = << >>
  /\ http = NoHttp

InitScan == \E tbl \in ScanTables : InitTable(tbl)

NextScan ==
  \/ Return
  \/ keys(OpsTxn, ScanRanges, ScanFails)
  \/ keysr(OpsTxn, ScanRanges, ScanFails)
  \/ scan(OpsTxn, ScanRanges, ScanFails)
  \/ scanr(OpsTxn, ScanRanges, ScanFails)
  \/ getr(OpsTxn, ScanRanges, ScanFails)
  \/ batch_keys(OpsTxn, ScanRanges, ScanFails)
  \/ batch_keys_vals(OpsTxn, ScanRanges, ScanFails)

SpecScan == InitScan /\ [][NextScan]_vars

\* The key encoders, called with any names.
NextKey ==
  \/ CallMl
  \/ CallWasm
  \/ CallApi
  \/ CallWasmNew
  \/ CallWasmList
  \/ CallWasmBinaryKey

SpecKey == Init /\ [][NextKey]_vars

\* Every operation of the contract on one Transaction at a time, on a table
\* that holds every key of ScanKeys, with a native error at any call.
NativeRanges == {[start |-> << >>, end |-> <<9>>],
                 [start |-> <<1, 2>>, end |-> <<2>>]}
NativeFails == FailOpen..MaxScanKeys

InitNative == InitTable([k \in ScanKeys |-> 1])

NextNative ==
  \/ DatastoreNew
  \/ DropDatastore
  \/ Return
  \/ TransactionCall(OpsTxn)
  \/ BeginRwTxn(OpsTxn, TxnChecks)
  \/ BeginRwTxnErr(OpsTxn)
  \/ DropFieldDb(OpsTxn)
  \/ DropFieldTxn(OpsTxn)
  \/ commit(OpsTxn)
  \/ exists(OpsTxn)
  \/ get(OpsTxn)
  \/ set(OpsTxn)
  \/ put(OpsTxn)
  \/ del(OpsTxn)
  \/ keys(OpsTxn, NativeRanges, NativeFails)
  \/ keysr(OpsTxn, NativeRanges, NativeFails)
  \/ scan(OpsTxn, NativeRanges, NativeFails)
  \/ scanr(OpsTxn, NativeRanges, NativeFails)
  \/ getr(OpsTxn, NativeRanges, NativeFails)

SpecNative == InitNative /\ [][NextNative]_vars

\* The validation of candidate WASM buffers.
NextValid ==
  \/ IsValidCall
  \/ HttpReturn

SpecValid == Init /\ [][NextValid]_vars

\* The WASM layer: imports, exports and DEFINE WASM statements.
NextWasm ==
  \/ import
  \/ export
  \/ DefineWasm
  \/ HttpReturn

SpecWasm == Init /\ [][NextWasm]_vars

\* The WASM layer reached through the HTTP routes only.
NextImport ==
  \/ import
  \/ export
  \/ HttpReturn

SpecImport == Init /\ [][NextImport]_vars

\* The identifier parser on any text.
NextIdent ==
  \/ IdentCall
  \/ HttpReturn

SpecIdent == Init /\ [][NextIdent]_vars

\* One call of a key encoder, with any names.
NextKeyOne == kq = << >> /\ NextKey

SpecKeyOne == Init /\ [][NextKeyOne]_vars

\* ----------------------------------------------------------------- claims
\* What get(key) returns in the open transaction of slot t when the engine
\* does not fail.
Reads(t, key) == get_res(t, key, FALSE)

Open(t) == obj[t] = "boxed" /\ txn[t]

\* C1: after set(k, v) and a successful commit, get(k) returns v in every
\* transaction opened afterwards, until another transaction that overwrites
\* or deletes k has committed: a transaction that has not written k itself
\* reads the value the last successful commit that wrote k left.
C1_CommittedSetIsRead ==
  \A t \in Txns, k \in Keys :
    (Open(t) /\ k \notin wrote[t]) => Reads(t, k) = Ok(durable[k])

\* A get has just returned the value an earlier transaction set and committed.
C1_Witness ==
  /\ last.op = "get" /\ last.res.tag = "Ok"
  /\ last.res.val # NoVal
  /\ last.key \notin wrote[last.t]
  /\ durable[last.key] = last.res.val

\* C2: visibility is all-or-nothing: a cancel leaves the table later
\* transactions start from as it was, a successful commit puts every key the
\* transaction has set, put or deleted into it with the transaction's value.
C2_AllOrNothing ==
  [][ /\ last'.op = "cancel" => store' = store
      /\ (last'.op = "commit" /\ last'.res.tag = "Ok") =>
           \A k \in Keys :
             store'[k] = IF k \in wrote[last'.t] THEN view[last'.t][k]
                         ELSE store[k] ]_vars

\* A transaction with buffered writes has just been cancelled, after some
\* other transaction has committed a value.
C2_Witness ==
  /\ last.op = "cancel" /\ last.dirty # {}
  /\ \E k \in Keys : durable[k] # NoVal /\ store[k] = durable[k]

ContractOps ==
  {"exists", "get", "set", "put", "putc", "replace", "del", "delc", "keys",
   "keysr", "scan", "scanr", "getr", "scan_all_versions", "batch_keys",
   "batch_keys_vals", "save_point_prepare", "check_level", "commit", "cancel"}

\* C3: every operation of the contract called after commit or cancel fails
\* with the closed-transaction error.
C3_ClosedFails ==
  (last.op \in ContractOps /\ last.wasDone) =>
     (last.res.tag = "Err" /\ last.res.err = "No active transaction")

WriteOps == {"set", "put", "putc", "replace", "del", "delc"}

\* C4: on a transaction created with write = false every write operation
\* fails and changes nothing.
C4_ReadOnlyWritesFail ==
  [][ (last'.op \in WriteOps /\ ~write[last'.t]) =>
        (last'.res.tag = "Err" /\ view' = view /\ store' = store) ]_vars

\* C5: at most one write transaction is open against the Datastore at any
\* time, whatever the callers do.
C5_OneWriter == Cardinality({t \in Txns : Open(t) /\ write[t]}) <= 1

\* A second write transaction is being opened while a write transaction is open.
C5_Witness ==
  \E t \in Txns, u \in Txns :
    /\ t # u
    /\ Open(t) /\ write[t]
    /\ obj[u] = "begin" /\ write[u]

\* C6: opening a read transaction never waits for another open transaction:
\* a call of transaction(false) that has not returned can return.
C6_ReadOpenNeverWaits ==
  \A t \in Txns : (obj[t] = "begin" /\ ~write[t]) => WriterFree

\* C7: a read transaction reads, for every key, the value that was committed
\* when it was opened.
C7_ReadSnapshot ==
  \A t \in Txns, k \in Keys :
    (Open(t) /\ ~write[t]) => Reads(t, k) = Ok(snap[t][k])

\* C8: the environment is alive whenever a native transaction handle derived
\* from it is live.
C8_EnvOutlivesTxn == \A t \in Txns : txn[t] => EnvAlive

\* C9: putc(k, v, expected) applies only if the stored value of k matches
\* expected (None: k must not exist); otherwise it fails and leaves k as it was.
C9_PutcChecks ==
  [][ last'.op = "putc" =>
        IF txn[last'.t] /\ view[last'.t][last'.key] = last'.chk
          THEN last'.res.tag = "Ok" => view'[last'.t][last'.key] = last'.val
          ELSE last'.res.tag = "Err" /\ view' = view ]_vars

\* C10: delc(k, expected) removes k only if the stored value of k matches
\* expected; when it differs, k and its value are left unchanged.
C10_DelcChecks ==
  [][ (last'.op = "delc" /\ txn[last'.t]
         /\ view[last'.t][last'.key] # last'.chk) =>
        view'[last'.t][last'.key] = view[last'.t][last'.key] ]_vars

\* C11: a commit called on a Transaction that commit or cancel has already
\* closed returns an error and leaves the committed table, the table on
\* disk and the tables the transactions see as they were.
C11_SecondCommitFails ==
  [][(last'.op = "commit" /\ last'.wasDone)
       => /\ last'.res.tag = "Err"
          /\ store' = store /\ durable' = durable
          /\ view' = view /\ snap' = snap]_vars

\* A second commit has returned its error on a Transaction whose first
\* commit put a value into the table.
C11_Witness ==
  /\ last.op = "commit" /\ last.wasDone /\ last.res.tag = "Err"
  /\ committed[last.t]
  /\ \E k \in Keys : store[k] # NoVal

\* C12: a commit called on a Transaction created with write = false
\* returns an error.
C12_ReadOnlyCommitFails ==
  (last.op = "commit" /\ ~writeable(last.t)) => last.res.tag = "Err"

\* C13: closed() is false when the Transaction is created, only commit and
\* cancel turn it true, it is true when commit or cancel has returned,
\* with Ok or with an error, and once true it stays true for as long as
\* the Transaction exists.
C13_ClosedOnce ==
  [][\A t \in Txns :
       /\ (last'.op = "transaction" /\ last'.t = t /\ last'.res.tag = "Ok")
            => ~closed(t)'
       /\ (last'.op \in {"commit", "cancel"} /\ last'.t = t) => closed(t)'
       /\ (~closed(t) /\ closed(t)')
            => (last'.op \in {"commit", "cancel"} /\ last'.t = t)
       /\ (closed(t) /\ obj'[t] # "none") => closed(t)']_vars

\* The first commit of a Transaction has returned the engine's error and
\* the Transaction is closed.
C13_Witness ==
  /\ last.op = "commit" /\ ~last.wasDone
  /\ last.res.tag = "Err"
  /\ closed(last.t)

\* C14: a cancel called after the successful commit of the same
\* Transaction leaves the committed table and the table on disk as the
\* commit made them, and a transaction that begins afterwards starts from
\* that table.
C14_CancelAfterCommit ==
  [][/\ (last'.op = "cancel" /\ committed[last'.t])
          => (store' = store /\ durable' = durable)
     /\ (last'.op = "transaction" /\ last'.res.tag = "Ok")
          => view'[last'.t] = store]_vars

\* cancel has returned on a Transaction whose commit put a value into the
\* table.
C14_Witness ==
  /\ last.op = "cancel" /\ last.wasDone /\ committed[last.t]
  /\ \E k \in Keys : store[k] # NoVal /\ durable[k] = store[k]

\* The methods that take a version.
VersionedOps ==
  {"exists", "get", "set", "put", "keys", "keysr", "scan", "scanr", "getr",
   "batch_keys", "batch_keys_vals", "save_point_prepare"}

\* C15: every call that passes a version, and every call of
\* scan_all_versions, returns UnsupportedVersionedQueries and leaves the
\* table and every transaction's writes as they were.
C15_VersionedFails ==
  [][((last'.op \in VersionedOps /\ last'.version # NoVersion)
        \/ last'.op = "scan_all_versions")
       => /\ last'.res.tag = "Err"
          /\ last'.res.err = "UnsupportedVersionedQueries"
          /\ UNCHANGED <<store, durable, view, wrote, snap, txn>>]_vars

\* A set with a version has been refused on an open Transaction.
C15_Witness ==
  /\ last.op = "set" /\ last.version # NoVersion
  /\ Open(last.t)
  /\ last.res.err = "UnsupportedVersionedQueries"

\* C16: the pairs a scan returns are at most `limit` many, their keys lie
\* in [rng.start, rng.end) and ascend strictly, and each value is the one
\* the table holds for its key.
C16_ScanOrderedBounded ==
  (last.op = "scan" /\ last.res.tag = "Ok") =>
    LET r == last.res.val IN
      /\ Len(r) <= last.limit
      /\ \A i \in 1..Len(r) :
           /\ KeyLe(last.rng.start, r[i][1])
           /\ KeyLt(r[i][1], last.rng.end)
           /\ r[i][2] = view[last.t][r[i][1]]
      /\ \A i \in 1..(Len(r) - 1) : KeyLt(r[i][1], r[i + 1][1])

\* The table holds <<1>>, <<1, 2>> and <<2>>; scan([<<1>>, <<2>>), 3) has
\* returned the first two.
C16_Witness ==
  /\ last.op = "scan" /\ last.res.tag = "Ok"
  /\ last.rng = [start |-> <<1>>, end |-> <<2>>] /\ last.limit = 3
  /\ view[last.t][<<2>>] # NoVal
  /\ Len(last.res.val) = 2
  /\ last.res.val[1][1] = <<1>> /\ last.res.val[2][1] = <<1, 2>>

\* The first n elements of s.
Take(s, n) == SubSeq(s, 1, Min2(n, Len(s)))

\* The full forward scan of the range on the table of slot t.
FullScan(t, rng) == getr_loop(view[t], CursorItems(view[t]), 1, rng, << >>)

\* C17: scanr returns the reverse of the full forward scan of the range,
\* cut to its first `limit` pairs: the greatest keys of the range.
C17_ScanrGreatest ==
  (last.op = "scanr" /\ last.res.tag = "Ok") =>
    last.res.val = Take(Reverse(FullScan(last.t, last.rng)), last.limit)

\* The key components of a sequence of pairs.
KeysOf(pairs) == [i \in 1..Len(pairs) |-> pairs[i][1]]

\* C18: keys returns the keys of the pairs scan returns for the same
\* range, limit and table, and keysr those of scanr.
C18_KeysAgreeWithScan ==
  /\ (last.op = "keys" /\ last.res.tag = "Ok") =>
       last.res.val = KeysOf(scan_res(last.t, last.rng, last.limit, NoFail).val)
  /\ (last.op = "scan" /\ last.res.tag = "Ok") =>
       KeysOf(last.res.val) = keys_res(last.t, last.rng, last.limit, NoFail).val
  /\ (last.op = "keysr" /\ last.res.tag = "Ok") =>
       last.res.val = KeysOf(scanr_res(last.t, last.rng, last.limit, NoFail).val)
  /\ (last.op = "scanr" /\ last.res.tag = "Ok") =>
       KeysOf(last.res.val) = keysr_res(last.t, last.rng, last.limit, NoFail).val

\* keysr has returned two keys of a range that holds three.
C18_Witness ==
  /\ last.op = "keysr" /\ last.res.tag = "Ok"
  /\ last.limit = 2 /\ Len(last.res.val) = 2
  /\ Len(FullScan(last.t, last.rng)) = 3

\* The encoders that make the key of an entity, one per kind: ML index,
\* API key, WASM module, WASM binary payload.
KeyFns == {"ml", "api", "wasm::new", "wasm::binary_key"}

\* The encoders that make the prefix under which a kind is listed.
PrefixFns == {"ml", "api", "wasm", "wasm::list"}

\* The (ns, db, kind, id, version) tuple of a call.
Tuple(c) == <<c.ns, c.db, c.fn, c.ident, c.version>>

\* C19: two calls of the key encoders with different (ns, db, kind, id,
\* version) tuples return different keys.
C19_EncodingInjective ==
  \A i \in 1..Len(kq), j \in 1..Len(kq) :
    (kq[i].fn \in KeyFns /\ kq[j].fn \in KeyFns /\ Tuple(kq[i]) # Tuple(kq[j]))
      => kq[i].key # kq[j].key

\* The entity kind whose keys an encoder makes or lists.
Kind(fn) == IF fn \in {"ml", "api"} THEN fn ELSE "wasm"

\* Byte string p is a prefix of byte string k.
StartsWith(k, p) == Len(p) <= Len(k) /\ SubSeq(k, 1, Len(p)) = p

\* C20: a key encoded for one (ns, db, kind) does not start with the list
\* prefix of a different (ns, db, kind).
C20_PrefixesDisjoint ==
  \A i \in 1..Len(kq), j \in 1..Len(kq) :
    (/\ kq[i].fn \in {"wasm::new", "wasm::binary_key"}
     /\ kq[j].fn \in PrefixFns
     /\ <<kq[i].ns, kq[i].db, Kind(kq[i].fn)>>
          # <<kq[j].ns, kq[j].db, Kind(kq[j].fn)>>)
      => ~StartsWith(kq[i].key, kq[j].key)

\* C21: wasm::list(ns, db) is a prefix of the key wasm::new and of the key
\* wasm::binary_key return for the same ns and db, whatever the identifier
\* and the version, and it is the key database::wasm(ns, db) returns.
C21_ListIsPrefix ==
  \A i \in 1..Len(kq) :
    /\ kq[i].fn \in {"wasm::new", "wasm::binary_key"}
         => StartsWith(kq[i].key, wasm_list(kq[i].ns, kq[i].db))
    /\ kq[i].fn = "wasm" => kq[i].key = wasm_list(kq[i].ns, kq[i].db)
    /\ kq[i].fn = "wasm::list" => kq[i].key = wasm(kq[i].ns, kq[i].db)

\* wasm::binary_key has been called with a namespace, a database, an
\* identifier and a version that are not empty.
C21_Witness ==
  \E i \in 1..Len(kq) :
    /\ kq[i].fn = "wasm::binary_key"
    /\ kq[i].ns # << >> /\ kq[i].db # << >>
    /\ kq[i].ident # << >> /\ kq[i].version # << >>
    /\ StartsWith(kq[i].key, wasm_list(kq[i].ns, kq[i].db))

\* C22: wasm::list(ns, db) is a strict prefix of every key wasm::new
\* returns for the same ns and db: a prefix, and shorter than the key.
C22_ListIsStrictPrefix ==
  \A i \in 1..Len(kq) :
    kq[i].fn = "wasm::new"
      => /\ StartsWith(kq[i].key, wasm_list(kq[i].ns, kq[i].db))
         /\ Len(wasm_list(kq[i].ns, kq[i].db)) < Len(kq[i].key)

C24_DelRemoves ==
  [][\A t \in Txns, k \in Keys :
       (/\ last'.op = "del" /\ last'.t = t /\ last'.key = k
        /\ Open(t) /\ writeable(t)
        /\ last'.res.err # ErrNative.err)
         => /\ last'.res.tag = "Ok"
            /\ Reads(t, k)' = Ok(NoVal)
            /\ IsSome(Reads(t, k))' = Ok(FALSE)
            /\ view[t][k] = NoVal => (view' = view /\ store' = store)]_vars

\* A del has returned Ok on a key that holds a committed value, and the
\* Transaction no longer reads it.
C24_Witness ==
  /\ last.op = "del" /\ last.res.tag = "Ok"
  /\ Open(last.t) /\ writeable(last.t)
  /\ snap[last.t][last.key] # NoVal
  /\ Reads(last.t, last.key) = Ok(NoVal)

\* C26: save_point_prepare with version None returns Ok(None) for every
\* key, and changes neither the table, nor what the Transaction has
\* written, nor its savepoint stack.
C26_SavePointUnsupported ==
  [][(last'.op = "save_point_prepare" /\ last'.version = NoVersion)
       => /\ last'.res.tag = "Ok" /\ last'.res.val = NoVal
          /\ UNCHANGED <<store, durable, save_points, view, wrote>>]_vars

\* save_point_prepare has returned Ok(None) on an open Transaction that
\* has a write pending.
C26_Witness ==
  /\ last.op = "save_point_prepare" /\ last.version = NoVersion
  /\ last.res.tag = "Ok" /\ last.res.val = NoVal
  /\ Open(last.t) /\ wrote[last.t] # {}
  /\ save_points[last.t] = << >>

\* C25: the Batch that batch_keys and batch_keys_vals return carries a
\* continuation marker exactly when keys of the range remain after the
\* ones it holds.
C25_BatchPaged ==
  (last.op \in {"batch_keys", "batch_keys_vals"} /\ last.res.tag = "Ok")
    => (last.res.val.next # NoRange
          <=> Len(FullScan(last.t, last.rng)) > Len(last.res.val.values))

\* C27: is_valid_wasm_module accepts a buffer exactly when the buffer has
\* at least 8 bytes and its first 8 bytes are 00 61 73 6D 01 00 00 00,
\* whatever follows them.
C27_ValidIffHeader ==
  http.op = "is_valid_wasm_module" =>
    (http.res.val <=>
       /\ Len(http.body) >= 8
       /\ \A i \in 1..8 : http.body[i] = <<0, 97, 115, 109, 1, 0, 0, 0>>[i])

\* A buffer that goes on after the 8 header bytes has been accepted.
C27_Witness ==
  /\ http.op = "is_valid_wasm_module"
  /\ Len(http.body) > 8
  /\ http.res.val

\* C28: when an import has stored the payload and the definition that
\* follows fails, the handler attempts to delete the payload it stored
\* (the payload is gone when the delete succeeds) and returns the failure
\* of the definition, whether or not the delete succeeds; never success.
C28_CleanupKeepsFailure ==
  [][(http'.op = "import" /\ http'.stored /\ http'.def.tag = "Err")
       => /\ http'.cleanup \in {"done", "failed"}
          /\ http'.res.tag = "Err"
          /\ http'.res = http'.def
          /\ (http'.cleanup = "done"
                => import_path(SessNs, SessDb, http'.name, http'.version,
                               http'.hash) \notin DOMAIN obs')]_vars

\* An import whose definition failed and whose cleanup failed too has
\* returned the failure of the definition.
C28_Witness ==
  /\ http.op = "import" /\ http.stored
  /\ http.cleanup = "failed"
  /\ http.res.tag = "Err" /\ http.res.err = "WasmAlreadyExists"

\* C29: after a successful import of bytes B under (ns, db, name, version)
\* the metadata record holds hash(B), the object store holds B at
\* wasm/{ns}/{db}/{name}-{version}-{hash(B)}.wasm, and an export of
\* (name, version) in the same ns/db returns exactly B.
C29_ImportThenExport ==
  [][(http'.op = "import" /\ http'.res.tag = "Ok")
       => LET key == wasm_new(SessNs, SessDb, http'.name, http'.version)
              path == import_path(SessNs, SessDb, http'.name, http'.version,
                                  hash(http'.body))
          IN /\ key \in DOMAIN defs'
             /\ defs'[key].hash = hash(http'.body)
             /\ path \in DOMAIN obs'
             /\ obs'[path] = http'.body
             /\ export_res(SessNs, SessDb, http.name, http.version, FALSE)'
                  = Ok(http'.body)]_vars

\* An import under a name and a version given by the headers has succeeded.
C29_Witness ==
  /\ http.op = "import" /\ http.res.tag = "Ok"
  /\ http.name = <<Byte_a>> /\ http.version = <<Byte_a>>
  /\ Len(http.body) > 8

\* C30: DEFINE WASM without IF NOT EXISTS for a (name, version) whose key
\* exists fails with WasmAlreadyExists and leaves the definitions as they
\* were; when the key does not exist the statement is stored under
\* wasm::new(ns, db, name, version).  Failures of the permission check
\* and of the engine are set aside.
C30_DefineConflict ==
  [][(http'.op = "define" /\ ~http'.if_not_exists)
       => LET key == wasm_new(SessNs, SessDb, http'.name, http'.version) IN
            /\ key \in DOMAIN defs
                 => /\ http'.res.tag = "Err"
                    /\ http'.res.err \in {"WasmAlreadyExists", "Thrown"}
                    /\ defs' = defs
            /\ (key \notin DOMAIN defs /\ http'.res.err # "Thrown")
                 => /\ http'.res.tag = "Ok"
                    /\ DOMAIN defs' = DOMAIN defs \cup {key}
                    /\ defs'[key].name = http'.name
                    /\ defs'[key].version = http'.version
                    /\ defs'[key].hash = http'.hash
                    /\ \A k \in DOMAIN defs : defs'[k] = defs[k]]_vars

\* A DEFINE WASM without IF NOT EXISTS has met an existing definition
\* that carries another hash.
C30_Witness ==
  /\ http.op = "define" /\ ~http.if_not_exists
  /\ http.res.tag = "Err" /\ http.res.err = "WasmAlreadyExists"
  /\ LET key == wasm_new(SessNs, SessDb, http.name, http.version) IN
       key \in DOMAIN defs /\ defs[key].hash # http.hash

\* C31: DEFINE WASM with if_not_exists = true leaves the stored definition
\* unchanged when a definition for the same (name, version) is stored.
C31_IfNotExistsKeeps ==
  [][(http'.op = "define" /\ http'.if_not_exists)
       => LET key == wasm_new(SessNs, SessDb, http'.name, http'.version) IN
            key \in DOMAIN defs
              => (key \in DOMAIN defs' /\ defs'[key] = defs[key])]_vars

\* C34: after any sequence of imports, every module whose metadata record
\* exists has its payload in the object store at the path derived from the
\* record, and the payload carries the hash of the record.
C34_DefinedHasPayload ==
  \A key \in DOMAIN defs :
    LET path == export_path(SessNs, SessDb, defs[key].name,
                            defs[key].version, defs[key].hash)
    IN path \in DOMAIN obs /\ hash(obs[path]) = defs[key].hash

\* C35: in every reachable state of a Transaction, closed() is true exactly
\* when the native transaction handle has been released (txn is None).
C35_DoneIffNoHandle ==
  \A t \in Txns : obj[t] = "boxed" => (closed(t) <=> ~txn[t])

\* A Transaction whose native commit failed is closed and holds no handle.
C35_Witness ==
  /\ last.op = "commit" /\ last.res = ErrNative
  /\ obj[last.t] = "boxed"
  /\ closed(last.t) /\ ~txn[last.t]

KeysInRange(t, rng) ==
  SortKeys({k \in DOMAIN view[t] :
              /\ view[t][k] # NoVal
              /\ KeyLe(rng.start, k) /\ KeyLt(k, rng.end)})

\* The keys ks with the values the table of slot t holds for them.
PairsOf(t, ks) == [i \in 1..Len(ks) |-> <<ks[i], view[t][ks[i]]>>]

\* C33: keys and scan return exactly the first `limit` elements of the
\* ascending list of all stored keys k with start <= k < end (with their
\* values for scan), and getr returns that whole list.
C33_LoopIsReference ==
  /\ (last.op = "keys" /\ last.res.tag = "Ok") =>
       last.res.val = Take(KeysInRange(last.t, last.rng), last.limit)
  /\ (last.op = "scan" /\ last.res.tag = "Ok") =>
       last.res.val
         = Take(PairsOf(last.t, KeysInRange(last.t, last.rng)), last.limit)
  /\ (last.op = "getr" /\ last.res.tag = "Ok") =>
       last.res.val = PairsOf(last.t, KeysInRange(last.t, last.rng))

\* scan has skipped a stored key below the start of the range, stopped at
\* the limit with a key of the range left, and returned one pair.
C33_Witness ==
  /\ last.op = "scan" /\ last.res.tag = "Ok"
  /\ last.rng = [start |-> <<1, 2>>, end |-> <<9>>] /\ last.limit = 1
  /\ view[last.t][<<1>>] # NoVal /\ view[last.t][<<2>>] # NoVal
  /\ Len(last.res.val) = 1 /\ last.res.val[1][1] = <<1, 2>>

\* C37: keys, keysr, scan, scanr and getr called with start == end return
\* the empty sequence for every table and limit.
C37_EmptyRange ==
  (/\ last.op \in {"keys", "keysr", "scan", "scanr", "getr"}
   /\ last.res.tag = "Ok"
   /\ last.rng.start = last.rng.end)
    => last.res.val = << >>

\* getr of the range [k, k) for a stored key k has returned nothing.
C37_Witness ==
  /\ last.op = "getr" /\ last.res.tag = "Ok"
  /\ last.rng.start = last.rng.end
  /\ last.rng.start \in DOMAIN view[last.t]
  /\ view[last.t][last.rng.start] # NoVal
  /\ last.res.val = << >>

\* C36: the key wasm::binary_key returns for any (ns, db, id, version)
\* differs from the key wasm::new returns for any (ns', db', id', version').
C36_BinaryKeyApart ==
  \A i \in 1..Len(kq), j \in 1..Len(kq) :
    (kq[i].fn = "wasm::binary_key" /\ kq[j].fn = "wasm::new")
      => kq[i].key # kq[j].key

\* C39: an import changes neither the object store nor the definitions and
\* returns an error when the route is not allowed, the session has no
\* namespace and database or no Edit permission, reading the body fails,
\* the buffer is empty, or the buffer fails is_valid_wasm_module.
C39_GuardsBeforeEffect ==
  [][(/\ http'.op = "import"
      /\ \/ http'.guard # "pass"
         \/ http'.body = << >>
         \/ ~is_valid_wasm_module(http'.body))
       => /\ obs' = obs
          /\ defs' = defs
          /\ ~http'.stored
          /\ http'.res.tag = "Err"]_vars

\* After a module has been imported, an import whose guards pass up to the
\* validation has been refused for a buffer that holds the magic bytes only.
C39_Witness ==
  /\ http.op = "import" /\ http.guard = "pass"
  /\ http.body = Magic
  /\ http.res = Err("Invalid WebAssembly module format")
  /\ obs # << >> /\ defs # << >>

\* The text i from position a to position b is a name: it is not empty and
\* made of identifier characters only.
IsName(i, a, b) == a <= b /\ \A p \in a..b : val_char(i[p])

\* C40: for a name made only of identifier characters, the texts name,
\* `name` and <name> in angle brackets each parse to the Ident of that
\* name with nothing left over, and the Ident is displayed as the name
\* without quoting.
C40_QuotingFormsAgree ==
  http.op = "ident" =>
    LET i == http.body
        n == Len(i)
        Parses(a, b) ==
          /\ http.res.tag = "Ok"
          /\ http.res.val.name = SubSeq(i, a, b)
          /\ http.res.val.rest = << >>
          /\ Display(http.res.val.name) = SubSeq(i, a, b)
    IN /\ IsName(i, 1, n) => Parses(1, n)
       /\ (n >= 3 /\ i[1] = Backtick /\ i[n] = Backtick /\ IsName(i, 2, n - 1))
            => Parses(2, n - 1)
       /\ (/\ n >= 3 /\ i[1] = BracketOpen /\ i[n] = BracketClose
           /\ IsName(i, 2, n - 1))
            => Parses(2, n - 1)

\* The text <t> in angle brackets has been parsed to the Ident t.
C40_Witness ==
  /\ http.op = "ident"
  /\ http.body = <<BracketOpen, 116, BracketClose>>
  /\ http.res.tag = "Ok" /\ http.res.val.name = <<116>>
  /\ Display(http.res.val.name) = <<116>>

\* The loop of a range method looks at the f-th entry of the cursor: the
\* entry exists, every entry before it has a key below rng.end, and fewer
\* than `limit` of them are in the range.
LoopReaches(t, rng, limit, f) ==
  LET items == CursorItems(view[t]) IN
    /\ f \in 1..Len(items)
    /\ \A j \in 1..(f - 1) : KeyLt(items[j], rng.end)
    /\ Cardinality({j \in 1..(f - 1) : InRange(items[j], rng)}) < limit

====
